---- MODULE Spec2Model ----
(***************************************************************************)
(* Session / credential subsystem of k8s-ai: the cluster session registry  *)
(* (k8s_ai/utils/cluster_sessions.py), the dynamic client handle           *)
(* (k8s_ai/utils/k8s_client.py) and the request handlers that use them     *)
(* (k8s_ai/server/diagnostic_executor.py).                                  *)
(*                                                                         *)
(* Scheduling.  server/main.py runs the admin server and the A2A server     *)
(* with asyncio.gather on ONE event loop; every handler is an `async def`   *)
(* whose body calls the registry synchronously, with no await between the  *)
(* calls.  A handler therefore runs from its first statement to its return *)
(* before any other handler runs; only the wall clock moves meanwhile.     *)
(* A handler is modelled as a sequence of steps; between two steps of one  *)
(* handler only Tick can happen.                                           *)
(***************************************************************************)
EXTENDS Integers, Sequences, FiniteSets, TLC

\* ---------------------------------------------------------------- bounds
MaxTokens == 2      \* values the token generator can draw
MaxTime == 2        \* horizon of the wall clock
MaxHandles == 2     \* client handle objects that can be constructed

\* ------------------------------------------------------ program constants
MaxTtlHours == 168  \* cluster_sessions.py:72

NoToken == 0        \* Python None where a session (token) is expected
NoClient == 0       \* Python None in ClusterSession._k8s_client

Workers == {"w1", "w2"}
Tokens == 1..MaxTokens
\* ttl_hours values offered to register (hours; the clock ticks in the same unit)
TTLs == {-1, 0, 1, MaxTtlHours, MaxTtlHours + 1}

Absent == "<absent>"     \* a key that the mapping does not hold / Python None

\* ------------------------------------------------- sequences as dicts/lists
\* the None that next(..., None) returns, as an entry without a name
NotFound == [name |-> Absent]

\* faulty variant: a lookup that finds no entry of the name takes the first entry
SelectFirstOrHead(seq, name) ==
    IF \E i \in DOMAIN seq : seq[i].name = name
    THEN seq[CHOOSE i \in DOMAIN seq :
                 seq[i].name = name /\ \A j \in 1..(i - 1) : seq[j].name # name]
    ELSE IF seq = <<>> THEN NotFound ELSE Head(seq)

RECURSIVE SelectFirst(_, _)
\* next((x for x in seq if x["name"] == name), None)
SelectFirst(seq, name) ==
    IF seq = <<>> THEN NotFound
    ELSE IF Head(seq).name = name THEN Head(seq)
    ELSE SelectFirst(Tail(seq), name)

RECURSIVE Without(_, _)
\* the key sequence of a dict after dict.pop(key, None)
Without(seq, x) ==
    IF seq = <<>> THEN <<>>
    ELSE IF Head(seq) = x THEN Without(Tail(seq), x)
    ELSE <<Head(seq)>> \o Without(Tail(seq), x)

Range(seq) == {seq[i] : i \in 1..Len(seq)}

\* the key sequence of a dict after d[key] = value (insertion order kept)
DictSet(seq, x) == IF x \in Range(seq) THEN seq ELSE Append(seq, x)

\* ------------------------------------------------------ external encodings
\* base64.b64decode(x).decode("utf-8"): a table of the encodings used below;
\* anything else is not valid base64 (binascii.Error, a ValueError)
B64Table ==
    [x \in {"Y2E=", "Y2VydA==", "a2V5"} |->
        CASE x = "Y2E=" -> "ca"
          [] x = "Y2VydA==" -> "cert"
          [] x = "a2V5" -> "key"]

B64Valid(x) == x \in DOMAIN B64Table
B64Decode(x) == B64Table[x]

\* the local files open() can read; any other path raises OSError
Files ==
    [p \in {"/pki/ca.crt", "/pki/client.crt", "/pki/client.key"} |->
        CASE p = "/pki/ca.crt" -> "ca-file"
          [] p = "/pki/client.crt" -> "cert-file"
          [] p = "/pki/client.key" -> "key-file"]

FileExists(p) == p \in DOMAIN Files

\* ---------------------------------------------------------- credentials
KubernetesCredentials(api_server, token, ca_certificate, namespace, client_cert, client_key) ==
    [api_server |-> api_server, token |-> token, ca_certificate |-> ca_certificate,
     namespace |-> namespace, client_cert |-> client_cert, client_key |-> client_key]

NoCredentials == KubernetesCredentials("", "", "", "", "", "")

\* the outcome of a call that may raise: err is the Python exception type ("" when
\* the call returns), msg tells the raise statements of one type apart
Ok(creds) == [err |-> "", msg |-> "", creds |-> creds]
Raise(e, m) == [err |-> e, msg |-> m, creds |-> NoCredentials]

\* ---------------------------------------------- kubeconfig documents (inputs)
Ctx(name, cluster, user, namespace) ==
    [name |-> name, cluster |-> cluster, user |-> user, namespace |-> namespace]
Cluster(name, server, ca_data, ca_file) ==
    [name |-> name, server |-> server, ca_data |-> ca_data, ca_file |-> ca_file]
User(name, token, cert_data, key_data, cert_file, key_file) ==
    [name |-> name, token |-> token, cert_data |-> cert_data, key_data |-> key_data,
     cert_file |-> cert_file, key_file |-> key_file]

\* what yaml.safe_load returns: "yaml_error" raises YAMLError, "null" is None
\* (an empty document), "scalar" a bare string, "mapping" a dict
BaseDoc ==
    [parse |-> "mapping",
     current_context |-> "ctx-a",
     contexts |-> << Ctx("ctx-a", "prod", "svc", Absent),
                     Ctx("ctx-b", "dev", "dev-user", "team") >>,
     clusters |-> << Cluster("prod", "https://10.0.0.1:6443", "Y2E=", Absent),
                     Cluster("dev", "https://dev:6443", Absent, "/pki/ca.crt") >>,
     users |-> << User("svc", "abc", Absent, Absent, Absent, Absent),
                  User("dev-user", Absent, "Y2VydA==", "a2V5", Absent, Absent) >>]

\* client certificate and key given as file references
FileCertDoc ==
    [BaseDoc EXCEPT !.users = << User("svc", Absent, Absent, Absent, "/pki/client.crt", "/pki/client.key") >>]

Docs ==
    { BaseDoc,
      [BaseDoc EXCEPT !.parse = "yaml_error"],
      [BaseDoc EXCEPT !.parse = "null"],
      [BaseDoc EXCEPT !.parse = "scalar"],
      [BaseDoc EXCEPT !.current_context = Absent],
      [BaseDoc EXCEPT !.current_context = "gone"],
      [BaseDoc EXCEPT !.contexts = << Ctx("ctx-a", "missing", "svc", Absent) >>],
      [BaseDoc EXCEPT !.contexts = << Ctx("ctx-a", "prod", "missing", Absent) >>],
      [BaseDoc EXCEPT !.contexts = << Ctx("ctx-a", Absent, "svc", Absent) >>],
      [BaseDoc EXCEPT !.clusters = << Cluster("prod", Absent, Absent, Absent) >>],
      [BaseDoc EXCEPT !.clusters = << Cluster("prod", "https://10.0.0.1:6443", "%%%", Absent) >>],
      [BaseDoc EXCEPT !.clusters = << Cluster("prod", "https://10.0.0.1:6443", Absent, "/nowhere") >>],
      [BaseDoc EXCEPT !.users = << User("svc", Absent, Absent, Absent, Absent, Absent) >>],
      [BaseDoc EXCEPT !.users = << User("svc", "abc", "Y2VydA==", "a2V5", Absent, Absent) >>],
      FileCertDoc,
      [BaseDoc EXCEPT !.users = << User("svc", Absent, "Y2VydA==", Absent, Absent, "/pki/client.key") >>] }

\* a user entry whose token key is there with an empty value (token: "")
EmptyTokenDoc ==
    [BaseDoc EXCEPT !.users = << User("svc", "", Absent, Absent, Absent, Absent) >>]

\* a bearer-token user on a cluster whose CA certificate is a file reference
CaFileDoc ==
    [BaseDoc EXCEPT !.contexts = << Ctx("ctx-a", "dev", "svc", "team") >>]

\* the documents offered to the extraction on its own
ExtractDocs == Docs \cup {EmptyTokenDoc, CaFileDoc}

\* the context argument of register: None, "", or a name
ContextArgs == {Absent, "", "ctx-a", "nope"}
ClusterNames == {"prod-eu"}
\* the documents offered to register: every failure above, and the bearer-token
\* documents as the ones that succeed
RegisterDocs == Docs \ {FileCertDoc}

\* ------------------------------------------ _extract_credentials_from_kubeconfig
\* lines 134-150: the context entry (NotFound when an error is raised)
ResolveContext(kubeconfig, context_name) ==
    IF context_name # Absent /\ context_name # ""
    THEN SelectFirst(kubeconfig.contexts, context_name)
    ELSE IF kubeconfig.current_context = Absent \/ kubeconfig.current_context = ""
         THEN NotFound
         ELSE SelectFirst(kubeconfig.contexts, kubeconfig.current_context)

\* faulty variant: a CA certificate given as a file reference is ignored
ExtractCaInlineOnly(cluster_info) ==
    IF cluster_info.ca_data # Absent
    THEN IF B64Valid(cluster_info.ca_data)
         THEN [err |-> "", msg |-> "", v |-> B64Decode(cluster_info.ca_data)]
         ELSE [err |-> "ValueError", msg |-> "base64", v |-> ""]
    ELSE [err |-> "", msg |-> "", v |-> ""]

\* lines 177-186
ExtractCa(cluster_info) ==
    IF cluster_info.ca_data # Absent
    THEN IF B64Valid(cluster_info.ca_data)
         THEN [err |-> "", msg |-> "", v |-> B64Decode(cluster_info.ca_data)]
         ELSE [err |-> "ValueError", msg |-> "base64", v |-> ""]
    ELSE IF cluster_info.ca_file # Absent
         THEN IF FileExists(cluster_info.ca_file)
              THEN [err |-> "", msg |-> "", v |-> Files[cluster_info.ca_file]]
              ELSE [err |-> "OSError", msg |-> "open", v |-> ""]
         ELSE [err |-> "", msg |-> "", v |-> ""]

AuthOk(token, cert, key) == [err |-> "", msg |-> "", token |-> token, cert |-> cert, key |-> key]
AuthRaise(e, m) == [err |-> e, msg |-> m, token |-> "", cert |-> "", key |-> ""]

\* faulty variant: a certificate/key pair is preferred to the token
ExtractAuthPairFirst(user_info) ==
    IF user_info.cert_data # Absent /\ user_info.key_data # Absent
    THEN IF B64Valid(user_info.cert_data) /\ B64Valid(user_info.key_data)
         THEN AuthOk("", B64Decode(user_info.cert_data), B64Decode(user_info.key_data))
         ELSE AuthRaise("ValueError", "base64")
    ELSE IF user_info.cert_file # Absent /\ user_info.key_file # Absent
    THEN IF FileExists(user_info.cert_file) /\ FileExists(user_info.key_file)
         THEN AuthOk("", Files[user_info.cert_file], Files[user_info.key_file])
         ELSE AuthRaise("OSError", "open")
    ELSE IF user_info.token # Absent
    THEN AuthOk(user_info.token, "", "")
    ELSE AuthRaise("ValueError", "No supported authentication method found in kubeconfig")

\* lines 188-210
ExtractAuth(user_info) ==
    IF user_info.token # Absent
    THEN AuthOk(user_info.token, "", "")
    ELSE IF user_info.cert_data # Absent /\ user_info.key_data # Absent
    THEN IF B64Valid(user_info.cert_data) /\ B64Valid(user_info.key_data)
         THEN AuthOk("", B64Decode(user_info.cert_data), B64Decode(user_info.key_data))
         ELSE AuthRaise("ValueError", "base64")
    ELSE IF user_info.cert_file # Absent /\ user_info.key_file # Absent
    THEN IF FileExists(user_info.cert_file) /\ FileExists(user_info.key_file)
         THEN AuthOk("", Files[user_info.cert_file], Files[user_info.key_file])
         ELSE AuthRaise("OSError", "open")
    ELSE AuthRaise("ValueError", "No supported authentication method found in kubeconfig")

extract_credentials_from_kubeconfig(kubeconfig, context_name) ==
    IF kubeconfig.parse # "mapping"
    THEN Raise("AttributeError", "get")          \* None.get / str.get
    ELSE LET context == ResolveContext(kubeconfig, context_name) IN
    IF context = NotFound
    THEN Raise("ValueError", "context not found")
    ELSE IF context.cluster = Absent \/ context.user = Absent
    THEN Raise("KeyError", "context")
    ELSE LET cluster == SelectFirst(kubeconfig.clusters, context.cluster)
             user == SelectFirst(kubeconfig.users, context.user) IN
    IF cluster = NotFound THEN Raise("ValueError", "cluster not found")
    ELSE IF user = NotFound THEN Raise("ValueError", "user not found")
    ELSE IF cluster.server = Absent THEN Raise("KeyError", "server")
    ELSE LET ca == ExtractCa(cluster) IN
    IF ca.err # "" THEN Raise(ca.err, ca.msg)
    ELSE LET auth == ExtractAuth(user) IN
    IF auth.err # "" THEN Raise(auth.err, auth.msg)
    ELSE Ok(KubernetesCredentials(
            cluster.server, auth.token, ca.v,
            IF context.namespace = Absent THEN "default" ELSE context.namespace,
            auth.cert, auth.key))


\* ================================================================ state
VARIABLES
    now,        \* datetime.utcnow(), in hours
    sessions,   \* ClusterSessionManager._sessions: its keys, in insertion order
    objs,       \* the live ClusterSession objects, by session_token
    issued,     \* the tokens _generate_session_token has returned
    clients,    \* the DynamicKubernetesClient objects ever constructed
    pc,         \* per worker: where its handler stands
    loc,        \* per worker: the handler's local variables
    res,        \* per worker: what its handler returned (while pc = "done")
    qlog        \* the read query in flight through a client handle

vars == <<now, sessions, objs, issued, clients, pc, loc, res, qlog>>

\* ------------------------------------------------------------ ClusterSession
\* ClusterSession.__init__ (created_at is read from the clock in the constructor)
ClusterSession(session_token, cluster_name, credentials, expires_at, t) ==
    [session_token |-> session_token, cluster_name |-> cluster_name,
     credentials |-> credentials, expires_at |-> expires_at,
     created_at |-> t, k8s_client |-> NoClient]

\* faulty variant: a session counts as expired from the instant expires_at on
is_expired_at_deadline(session, t) == t >= session.expires_at

\* ClusterSession.is_expired at clock value t
is_expired(session, t) == t > session.expires_at

\* ClusterSession.to_dict at clock value t
to_dict(session, t) ==
    [session_token |-> session.session_token, cluster_name |-> session.cluster_name,
     api_server |-> session.credentials.api_server,
     namespace |-> session.credentials.namespace,
     created_at |-> session.created_at, expires_at |-> session.expires_at,
     is_expired |-> is_expired(session, t)]

\* ---------------------------------------------------- DynamicKubernetesClient
\* DynamicKubernetesClient._create_configuration: the temporary files it writes
\* (NamedTemporaryFile(delete=False)) for a client certificate and key, used
\* when there is no token, and for the CA certificate
create_configuration(credentials) ==
    (IF credentials.token = "" /\ credentials.client_cert # "" /\ credentials.client_key # ""
     THEN {"client.crt", "client.key"} ELSE {})
    \cup (IF credentials.ca_certificate # "" THEN {"ca.crt"} ELSE {})

\* DynamicKubernetesClient.__init__; owner is the session it was built for,
\* closes counts the calls of close(), api_closes those of ApiClient.close(),
\* temp_files are the files of this handle on disk
DynamicKubernetesClient(credentials, owner) ==
    [credentials |-> credentials, api_client |-> "none", owner |-> owner,
     closes |-> 0, api_closes |-> 0, temp_files |-> {}]

\* DynamicKubernetesClient.get_api_client: the ApiClient is built on first use
get_api_client(c) ==
    IF c.api_client = "none"
    THEN [c EXCEPT !.api_client = "open", !.temp_files = create_configuration(c.credentials)]
    ELSE c

\* faulty variant: close() forgets the ApiClient
close_without_api(c) == [c EXCEPT !.closes = @ + 1]

\* DynamicKubernetesClient.close
close(c) ==
    IF c.api_client # "none"
    THEN [c EXCEPT !.closes = @ + 1, !.api_client = "closed", !.api_closes = @ + 1]
    ELSE [c EXCEPT !.closes = @ + 1]

\* faulty variant: the session drops its handle without closing it
cleanup_without_close(session, cl) == cl

\* ClusterSession.cleanup: the client objects after it
cleanup(session, cl) ==
    IF session.k8s_client # NoClient
    THEN [cl EXCEPT ![session.k8s_client] = close(@)]
    ELSE cl

\* ------------------------------------------------------ ClusterSessionManager
\* The registry operations as functions of the registry R = [sessions, clients]
\* (objs is read only); each returns the registry after the call and the value
\* returned (ret).
Registry(s, c, r) == [sessions |-> s, clients |-> c, ret |-> r]

\* faulty variant: unregister reports a removal whatever the table held
unregister_cluster_reporting_true(R, o, session_token) ==
    IF session_token \in Range(R.sessions)
    THEN Registry(Without(R.sessions, session_token),
                  cleanup(o[session_token], R.clients), 1)
    ELSE Registry(R.sessions, R.clients, 1)

\* unregister_cluster: ret is 1 for True, 0 for False
unregister_cluster(R, o, session_token) ==
    IF session_token \in Range(R.sessions)
    THEN Registry(Without(R.sessions, session_token),
                  cleanup(o[session_token], R.clients), 1)
    ELSE Registry(R.sessions, R.clients, 0)

\* faulty variant: the lookup hands out whatever the table holds
get_session_without_expiry(R, o, session_token, t) ==
    Registry(R.sessions, R.clients,
             IF session_token \in Range(R.sessions) THEN session_token ELSE NoToken)

\* faulty variant: the lookup removes an expired entry and returns its session
get_session_returning_removed(R, o, session_token, t) ==
    IF session_token \in Range(R.sessions) /\ is_expired(o[session_token], t)
    THEN Registry(unregister_cluster(R, o, session_token).sessions,
                  unregister_cluster(R, o, session_token).clients, session_token)
    ELSE Registry(R.sessions, R.clients,
                  IF session_token \in Range(R.sessions) THEN session_token ELSE NoToken)

\* get_session at clock value t: ret is the session's token, NoToken for None
get_session(R, o, session_token, t) ==
    IF session_token \in Range(R.sessions) /\ is_expired(o[session_token], t)
    THEN Registry(unregister_cluster(R, o, session_token).sessions,
                  unregister_cluster(R, o, session_token).clients, NoToken)
    ELSE Registry(R.sessions, R.clients,
                  IF session_token \in Range(R.sessions) THEN session_token ELSE NoToken)

RECURSIVE UnregisterAll(_, _, _)
\* _cleanup_expired_sessions, lines 231-232: for token in expired_tokens
UnregisterAll(R, o, expired_tokens) ==
    IF expired_tokens = <<>> THEN R
    ELSE UnregisterAll(unregister_cluster(R, o, Head(expired_tokens)), o, Tail(expired_tokens))

\* register_cluster, lines 71-84: validation, parsing, extraction
register_prologue(kubeconfig_yaml, context, ttl_hours) ==
    IF ttl_hours > MaxTtlHours
    THEN Raise("ValueError", "TTL cannot exceed 168 hours (7 days)")
    ELSE IF kubeconfig_yaml.parse = "yaml_error"
    THEN Raise("ValueError", "Invalid kubeconfig YAML")
    ELSE extract_credentials_from_kubeconfig(kubeconfig_yaml, context)

\* faulty variant: the generator can return a token it has returned before
generate_session_token_reusing(drawn) == Tokens

\* _generate_session_token: secrets.token_urlsafe(32), 256 random bits; a draw
\* is taken to differ from every earlier draw
generate_session_token(drawn) == Tokens \ drawn

\* ------------------------------------------------------------- scheduling
\* faulty variant: handlers run on threads that preempt each other
Preemptive(w) == TRUE

\* the event loop runs one handler at a time: a handler starts only when no
\* other handler is between its first statement and its return
LoopFree(w) == \A v \in Workers \ {w} : pc[v] = "idle"

\* the skills a request can name, and the read queries each issues in order:
\* diagnose_issue lists the pods and then the events, analyze_logs gets the
\* events, a name the dispatcher does not know issues none
Skills == {"kubernetes_diagnose_issue", "kubernetes_analyze_logs", "no_such_skill"}
SkillQueries(skill_id) ==
    CASE skill_id = "kubernetes_diagnose_issue" -> <<"list_pods", "get_events">>
      [] skill_id = "kubernetes_analyze_logs" -> <<"get_events">>
      [] OTHER -> <<>>

NoLoc ==
    [session |-> NoToken, credentials |-> NoCredentials, cluster_name |-> "",
     expires_at |-> 0, ttl |-> 0, start |-> 0, scan |-> <<>>, expired_tokens |-> <<>>,
     client |-> NoClient, skill |-> "", queries |-> <<>>, pre |-> <<>>,
     summaries |-> <<>>]

NoRes ==
    [op |-> "", ok |-> FALSE, err |-> "", msg |-> "", arg |-> NoToken, ttl |-> 0,
     token |-> NoToken, client |-> NoClient, start |-> 0, at |-> 0, pre |-> <<>>,
     summaries |-> <<>>]

NoQuery == [token |-> NoToken, client |-> NoClient, at |-> 0, present |-> FALSE,
            expires_at |-> 0, created_at |-> 0]

Init ==
    /\ now = 0
    /\ sessions = <<>>
    /\ objs = <<>>
    /\ issued = {}
    /\ clients = <<>>
    /\ pc = [w \in Workers |-> "idle"]
    /\ loc = [w \in Workers |-> NoLoc]
    /\ res = [w \in Workers |-> NoRes]
    /\ qlog = NoQuery

\* the handler of worker w returns r; start is the clock when it was called,
\* at the clock when it returns
Done(w, r) ==
    /\ pc' = [pc EXCEPT ![w] = "done"]
    /\ loc' = [loc EXCEPT ![w] = NoLoc]
    /\ res' = [res EXCEPT ![w] = [r EXCEPT !.at = now]]

\* faulty variant: a background timer drops the entries that expire as the
\* clock advances
TickWithReaper ==
    /\ now < MaxTime
    /\ now' = now + 1
    /\ sessions' = SelectSeq(sessions, LAMBDA t : ~is_expired(objs[t], now + 1))
    /\ UNCHANGED <<objs, issued, clients, pc, loc, res, qlog>>

\* the wall clock advances (at any time, also while a handler runs)
Tick ==
    /\ now < MaxTime
    /\ now' = now + 1
    /\ UNCHANGED <<sessions, objs, issued, clients, pc, loc, res, qlog>>

\* ---------------------------------------------------------- register_cluster
\* the failure result of register
RegisterFailure(out, ttl) ==
    [NoRes EXCEPT !.op = "register", !.err = out.err, !.msg = out.msg, !.ttl = ttl,
                  !.start = now, !.pre = sessions]

\* faulty variant: the session is stored before the document is validated, and
\* stays when the validation raises
RegisterRaiseAfterStore(w, out, ttl) ==
    /\ Done(w, RegisterFailure(out, ttl))
    /\ \E tok \in IF generate_session_token(issued) = {} THEN {NoToken}
                  ELSE generate_session_token(issued) :
         IF tok = NoToken
         THEN UNCHANGED <<issued, sessions, objs>>
         ELSE /\ issued' = issued \cup {tok}
              /\ sessions' = DictSet(sessions, tok)
              /\ objs' = (tok :> ClusterSession(tok, "", NoCredentials, now + ttl, now)) @@ objs

\* lines 73, 79, 82-84: the exception leaves register_cluster
RegisterRaise(w, out, ttl) ==
    /\ Done(w, RegisterFailure(out, ttl))
    /\ UNCHANGED <<issued, sessions, objs>>

\* lines 71-90: validate, parse, extract, generate the token, compute expires_at
RegisterStart(w) ==
    /\ pc[w] = "idle" /\ LoopFree(w)
    /\ \E cluster_name \in ClusterNames, doc \in RegisterDocs, ctx \in ContextArgs, ttl \in TTLs :
         LET out == register_prologue(doc, ctx, ttl) IN
         IF out.err # ""
         THEN RegisterRaise(w, out, ttl)
         ELSE \E tok \in generate_session_token(issued) :
              /\ issued' = issued \cup {tok}
              /\ pc' = [pc EXCEPT ![w] = "reg_insert"]
              /\ loc' = [loc EXCEPT ![w] =
                            [NoLoc EXCEPT !.session = tok, !.credentials = out.creds,
                                          !.cluster_name = cluster_name, !.ttl = ttl,
                                          !.start = now,
                                          !.expires_at = now + ttl, !.pre = sessions]]
              /\ UNCHANGED <<res, sessions, objs>>
    /\ UNCHANGED <<now, clients, qlog>>

\* lines 92-101: construct the ClusterSession and store it
RegisterInsert(w) ==
    /\ pc[w] = "reg_insert"
    /\ objs' = (loc[w].session :> ClusterSession(loc[w].session, loc[w].cluster_name,
                                   loc[w].credentials, loc[w].expires_at, now)) @@ objs
    /\ sessions' = DictSet(sessions, loc[w].session)
    /\ pc' = [pc EXCEPT ![w] = "reg_scan"]
    /\ loc' = [loc EXCEPT ![w].scan = sessions']
    /\ UNCHANGED <<now, issued, clients, res, qlog>>

\* ------------------------------------------------- _cleanup_expired_sessions
\* lines 227-230: one entry of the scan; is_expired reads the clock per entry
SweepScan(w) ==
    /\ pc[w] \in {"reg_scan", "list_scan"}
    /\ loc[w].scan # <<>>
    /\ LET token == Head(loc[w].scan) IN
       loc' = [loc EXCEPT ![w].scan = Tail(@),
                          ![w].expired_tokens =
                              IF is_expired(objs[token], now) THEN Append(@, token) ELSE @]
    /\ UNCHANGED <<now, sessions, objs, issued, clients, pc, res, qlog>>

\* lines 231-232, then the caller goes on: register returns the token (line 106),
\* list builds the summaries (line 127)
SweepRemove(w) ==
    /\ pc[w] \in {"reg_scan", "list_scan"}
    /\ loc[w].scan = <<>>
    /\ LET R == UnregisterAll(Registry(sessions, clients, 0), objs, loc[w].expired_tokens) IN
       /\ sessions' = R.sessions
       /\ clients' = R.clients
       /\ IF pc[w] = "reg_scan"
          THEN Done(w, [NoRes EXCEPT !.op = "register", !.ok = TRUE, !.ttl = loc[w].ttl,
                                     !.token = loc[w].session, !.start = loc[w].start,
                                     !.pre = loc[w].pre])
          ELSE /\ pc' = [pc EXCEPT ![w] = "list_dict"]
               /\ loc' = [loc EXCEPT ![w].scan = R.sessions, ![w].expired_tokens = <<>>]
               /\ UNCHANGED res
    /\ UNCHANGED <<now, objs, issued, qlog>>

\* ------------------------------------------------------------- list_sessions
\* faulty variant: list projects the table without sweeping it first
ListStartWithoutSweep(w) ==
    /\ pc[w] = "idle" /\ LoopFree(w)
    /\ pc' = [pc EXCEPT ![w] = "list_dict"]
    /\ loc' = [loc EXCEPT ![w] = [NoLoc EXCEPT !.scan = sessions, !.pre = sessions,
                                               !.start = now]]
    /\ UNCHANGED <<now, sessions, objs, issued, clients, res, qlog>>

\* line 126: the sweep starts
ListStart(w) ==
    /\ pc[w] = "idle" /\ LoopFree(w)
    /\ pc' = [pc EXCEPT ![w] = "list_scan"]
    /\ loc' = [loc EXCEPT ![w] = [NoLoc EXCEPT !.scan = sessions, !.pre = sessions,
                                               !.start = now]]
    /\ UNCHANGED <<now, sessions, objs, issued, clients, res, qlog>>

\* line 127: one session.to_dict() (it reads the clock for its is_expired flag)
ListDict(w) ==
    /\ pc[w] = "list_dict"
    /\ loc[w].scan # <<>>
    /\ loc' = [loc EXCEPT ![w].scan = Tail(@),
                          ![w].summaries = Append(@, to_dict(objs[Head(loc[w].scan)], now))]
    /\ UNCHANGED <<now, sessions, objs, issued, clients, pc, res, qlog>>

\* line 127: the list is returned
ListReturn(w) ==
    /\ pc[w] = "list_dict"
    /\ loc[w].scan = <<>>
    /\ Done(w, [NoRes EXCEPT !.op = "list", !.ok = TRUE, !.start = loc[w].start,
                             !.pre = loc[w].pre, !.summaries = loc[w].summaries])
    /\ UNCHANGED <<now, sessions, objs, issued, clients, qlog>>

\* --------------------------------------------------------------- get_session
\* faulty variant: get sweeps every expired entry before it looks the token up
GetSessionSweeping(w) ==
    /\ pc[w] = "idle" /\ LoopFree(w)
    /\ \E session_token \in Tokens :
         LET S == UnregisterAll(Registry(sessions, clients, 0), objs,
                                SelectSeq(sessions, LAMBDA t : is_expired(objs[t], now)))
             R == get_session(S, objs, session_token, now) IN
         /\ sessions' = R.sessions
         /\ clients' = R.clients
         /\ Done(w, [NoRes EXCEPT !.op = "get", !.ok = (R.ret # NoToken),
                                  !.arg = session_token, !.token = R.ret, !.start = now,
                                  !.pre = sessions])
    /\ UNCHANGED <<now, objs, issued, qlog>>

\* lines 108-114, called with any token
GetSession(w) ==
    /\ pc[w] = "idle" /\ LoopFree(w)
    /\ \E session_token \in Tokens :
         LET R == get_session(Registry(sessions, clients, 0), objs, session_token, now) IN
         /\ sessions' = R.sessions
         /\ clients' = R.clients
         /\ Done(w, [NoRes EXCEPT !.op = "get", !.ok = (R.ret # NoToken),
                                  !.arg = session_token, !.token = R.ret, !.start = now,
                                  !.pre = sessions])
    /\ UNCHANGED <<now, objs, issued, qlog>>

\* -------------------------------------------------------- unregister_cluster
\* lines 116-122, called with any token
UnregisterCluster(w) ==
    /\ pc[w] = "idle" /\ LoopFree(w)
    /\ \E session_token \in Tokens :
         LET R == unregister_cluster(Registry(sessions, clients, 0), objs, session_token) IN
         /\ sessions' = R.sessions
         /\ clients' = R.clients
         /\ Done(w, [NoRes EXCEPT !.op = "unregister", !.ok = (R.ret = 1),
                                  !.arg = session_token, !.start = now, !.pre = sessions])
    /\ UNCHANGED <<now, objs, issued, qlog>>

\* ------------------------------------------------- execute_diagnostic_skill
\* faulty variant: the executor tells an expired token from an unknown one
DiagStartTellingExpiry(w) ==
    /\ pc[w] = "idle" /\ LoopFree(w)
    /\ \E session_token \in Tokens \cup {NoToken}, skill_id \in Skills :
         IF session_token = NoToken
         THEN /\ Done(w, [NoRes EXCEPT !.op = "diag", !.start = now, !.pre = sessions,
                                       !.msg = "session_token parameter is required for all diagnostic skills"])
              /\ UNCHANGED <<sessions, clients>>
         ELSE LET R == get_session(Registry(sessions, clients, 0), objs, session_token, now) IN
              /\ sessions' = R.sessions
              /\ clients' = R.clients
              /\ IF R.ret = NoToken
                 THEN Done(w, [NoRes EXCEPT !.op = "diag", !.arg = session_token,
                                            !.start = now, !.pre = sessions,
                                            !.msg = IF session_token \in Range(sessions)
                                                    THEN "Session expired"
                                                    ELSE "Invalid or expired session token"])
                 ELSE /\ pc' = [pc EXCEPT ![w] = "acc_check"]
                      /\ loc' = [loc EXCEPT ![w] =
                                    [NoLoc EXCEPT !.session = R.ret, !.skill = skill_id,
                                                  !.queries = SkillQueries(skill_id),
                                                  !.start = now, !.pre = sessions]]
                      /\ UNCHANGED res
    /\ UNCHANGED <<now, objs, issued, qlog>>

\* diagnostic_executor.py lines 48-62: the token parameter and its resolution
DiagStart(w) ==
    /\ pc[w] = "idle" /\ LoopFree(w)
    /\ \E session_token \in Tokens \cup {NoToken}, skill_id \in Skills :
         IF session_token = NoToken
         THEN /\ Done(w, [NoRes EXCEPT !.op = "diag", !.start = now, !.pre = sessions,
                                       !.msg = "session_token parameter is required for all diagnostic skills"])
              /\ UNCHANGED <<sessions, clients>>
         ELSE LET R == get_session(Registry(sessions, clients, 0), objs, session_token, now) IN
              /\ sessions' = R.sessions
              /\ clients' = R.clients
              /\ IF R.ret = NoToken
                 THEN Done(w, [NoRes EXCEPT !.op = "diag", !.arg = session_token,
                                            !.start = now, !.pre = sessions,
                                            !.msg = "Invalid or expired session token"])
                 ELSE /\ pc' = [pc EXCEPT ![w] = "acc_check"]
                      /\ loc' = [loc EXCEPT ![w] =
                                    [NoLoc EXCEPT !.session = R.ret, !.skill = skill_id,
                                                  !.queries = SkillQueries(skill_id),
                                                  !.start = now, !.pre = sessions]]
                      /\ UNCHANGED res
    /\ UNCHANGED <<now, objs, issued, qlog>>

\* faulty variant: the accessor builds a handle on every call
AccCheckWithoutMemo(w) ==
    /\ pc[w] = "acc_check"
    /\ pc' = [pc EXCEPT ![w] = "acc_new"]
    /\ UNCHANGED <<now, sessions, objs, issued, clients, loc, res, qlog>>

\* ClusterSession.get_k8s_client, line 35: the test of the memoized field
AccCheck(w) ==
    /\ pc[w] = "acc_check"
    /\ IF objs[loc[w].session].k8s_client = NoClient
       THEN /\ pc' = [pc EXCEPT ![w] = "acc_new"]
            /\ UNCHANGED loc
       ELSE /\ pc' = [pc EXCEPT ![w] = "query"]
            /\ loc' = [loc EXCEPT ![w].client = objs[loc[w].session].k8s_client]
    /\ UNCHANGED <<now, sessions, objs, issued, clients, res, qlog>>

\* faulty variant: the accessor returns the new handle without storing it
AccNewWithoutStore(w) ==
    /\ pc[w] = "acc_new"
    /\ Len(clients) < MaxHandles
    /\ clients' = Append(clients,
                         DynamicKubernetesClient(objs[loc[w].session].credentials,
                                                 loc[w].session))
    /\ loc' = [loc EXCEPT ![w].client = Len(clients) + 1]
    /\ pc' = [pc EXCEPT ![w] = "query"]
    /\ UNCHANGED <<now, sessions, objs, issued, res, qlog>>

\* faulty variant: building the handle pushes the session's expiry back
AccNewExtendingExpiry(w) ==
    /\ pc[w] = "acc_new"
    /\ Len(clients) < MaxHandles
    /\ clients' = Append(clients,
                         DynamicKubernetesClient(objs[loc[w].session].credentials,
                                                 loc[w].session))
    /\ objs' = [objs EXCEPT ![loc[w].session].k8s_client = Len(clients) + 1,
                            ![loc[w].session].expires_at = @ + 1]
    /\ loc' = [loc EXCEPT ![w].client = Len(clients) + 1]
    /\ pc' = [pc EXCEPT ![w] = "query"]
    /\ UNCHANGED <<now, sessions, issued, res, qlog>>

\* faulty variant: sessions with equal credentials are given one handle
AccNewSharedByCredentials(w) ==
    /\ pc[w] = "acc_new"
    /\ LET same == {i \in DOMAIN clients :
                       clients[i].credentials = objs[loc[w].session].credentials} IN
       IF same # {}
       THEN /\ UNCHANGED clients
            /\ objs' = [objs EXCEPT ![loc[w].session].k8s_client = CHOOSE i \in same : TRUE]
            /\ loc' = [loc EXCEPT ![w].client = CHOOSE i \in same : TRUE]
       ELSE /\ Len(clients) < MaxHandles
            /\ clients' = Append(clients,
                                 DynamicKubernetesClient(objs[loc[w].session].credentials,
                                                         loc[w].session))
            /\ objs' = [objs EXCEPT ![loc[w].session].k8s_client = Len(clients) + 1]
            /\ loc' = [loc EXCEPT ![w].client = Len(clients) + 1]
    /\ pc' = [pc EXCEPT ![w] = "query"]
    /\ UNCHANGED <<now, sessions, issued, res, qlog>>

\* ClusterSession.get_k8s_client, lines 36-37: construct, store, return
AccNew(w) ==
    /\ pc[w] = "acc_new"
    /\ Len(clients) < MaxHandles
    /\ clients' = Append(clients,
                         DynamicKubernetesClient(objs[loc[w].session].credentials,
                                                 loc[w].session))
    /\ objs' = [objs EXCEPT ![loc[w].session].k8s_client = Len(clients) + 1]
    /\ loc' = [loc EXCEPT ![w].client = Len(clients) + 1]
    /\ pc' = [pc EXCEPT ![w] = "query"]
    /\ UNCHANGED <<now, sessions, issued, res, qlog>>

\* the next read query of the skill (list_pods, get_events) is issued through
\* the handle: a blocking call, the ApiClient being built on first use.  qlog
\* records what the registry holds for the session at that instant.
QueryIssue(w) ==
    /\ pc[w] = "query"
    /\ loc[w].queries # <<>>
    /\ clients' = [clients EXCEPT ![loc[w].client] = get_api_client(@)]
    /\ qlog' = [token |-> loc[w].session, client |-> loc[w].client, at |-> now,
                present |-> loc[w].session \in Range(sessions),
                expires_at |-> objs[loc[w].session].expires_at,
                created_at |-> objs[loc[w].session].created_at]
    /\ pc' = [pc EXCEPT ![w] = "query_wait"]
    /\ UNCHANGED <<now, sessions, objs, issued, loc, res>>

\* faulty variant: a query that raises makes the executor unregister the session
QueryReturnInvalidating(w) ==
    /\ pc[w] = "query_wait"
    /\ qlog' = NoQuery
    /\ \E raised \in BOOLEAN :
         IF raised
         THEN /\ Done(w, [NoRes EXCEPT !.op = "diag", !.arg = loc[w].session,
                                       !.token = loc[w].session, !.client = loc[w].client,
                                       !.start = loc[w].start, !.pre = loc[w].pre,
                                       !.err = "Exception",
                                       !.msg = "Diagnostic analysis failed"])
              /\ sessions' = unregister_cluster(Registry(sessions, clients, 0), objs,
                                                loc[w].session).sessions
              /\ clients' = unregister_cluster(Registry(sessions, clients, 0), objs,
                                               loc[w].session).clients
         ELSE /\ loc' = [loc EXCEPT ![w].queries = Tail(@)]
              /\ pc' = [pc EXCEPT ![w] = "query"]
              /\ UNCHANGED <<res, sessions, clients>>
    /\ UNCHANGED <<now, objs, issued>>

\* the query returns, or raises and the skill's except clause returns a failure
QueryReturn(w) ==
    /\ pc[w] = "query_wait"
    /\ qlog' = NoQuery
    /\ \E raised \in BOOLEAN :
         IF raised
         THEN Done(w, [NoRes EXCEPT !.op = "diag", !.arg = loc[w].session,
                                    !.token = loc[w].session, !.client = loc[w].client,
                                    !.start = loc[w].start, !.pre = loc[w].pre,
                                    !.err = "Exception",
                                    !.msg = "Diagnostic analysis failed"])
         ELSE /\ loc' = [loc EXCEPT ![w].queries = Tail(@)]
              /\ pc' = [pc EXCEPT ![w] = "query"]
              /\ UNCHANGED res
    /\ UNCHANGED <<now, sessions, objs, issued, clients>>

\* lines 76-88: the skill returns its result, or the dispatcher returns the
\* failure for a skill it does not know
DiagReturn(w) ==
    /\ pc[w] = "query"
    /\ loc[w].queries = <<>>
    /\ Done(w, [NoRes EXCEPT !.op = "diag", !.ok = (SkillQueries(loc[w].skill) # <<>>),
                             !.msg = IF SkillQueries(loc[w].skill) # <<>> THEN ""
                                     ELSE "Unknown diagnostic skill",
                             !.arg = loc[w].session,
                             !.token = loc[w].session, !.client = loc[w].client,
                             !.start = loc[w].start, !.pre = loc[w].pre])
    /\ UNCHANGED <<now, sessions, objs, issued, clients, qlog>>

\* the ClusterSession objects something still refers to: the registry's values
\* and the handlers' locals (CPython frees the others)
Referenced == Range(sessions) \cup {loc[v].session : v \in Workers}

\* the response has been delivered; the handler's frame is gone and with it the
\* last references to sessions the registry no longer holds
Return(w) ==
    /\ pc[w] = "done"
    /\ pc' = [pc EXCEPT ![w] = "idle"]
    /\ res' = [res EXCEPT ![w] = NoRes]
    /\ objs' = [t \in DOMAIN objs \cap Referenced |-> objs[t]]
    /\ UNCHANGED <<now, sessions, issued, clients, loc, qlog>>

Next ==
    \/ Tick
    \/ \E w \in Workers :
         \/ RegisterStart(w) \/ RegisterInsert(w)
         \/ SweepScan(w) \/ SweepRemove(w)
         \/ ListStart(w) \/ ListDict(w) \/ ListReturn(w)
         \/ GetSession(w) \/ UnregisterCluster(w)
         \/ DiagStart(w) \/ AccCheck(w) \/ AccNew(w) \/ QueryIssue(w) \/ QueryReturn(w) \/ DiagReturn(w)
         \/ Return(w)

Spec == Init /\ [][Next]_vars

\* ================================================= the objects on their own
\* The extraction and one ClusterSession outside the registry, driven by a
\* single caller: extract from a document, construct a session from the
\* bundle, then call its accessor, use its handle and release it in any order.
MaxReleases == 2    \* calls of cleanup() on the session

UnitWorker == "w1"
UnitToken == CHOOSE t \in Tokens : TRUE

\* the arguments of the extraction and the count of cleanup() calls made
UnitLoc(kubeconfig, context_name) ==
    [kubeconfig |-> kubeconfig, context_name |-> context_name, releases |-> 0]

UnitInit ==
    /\ now = 0
    /\ sessions = <<>>
    /\ objs = <<>>
    /\ issued = {}
    /\ clients = <<>>
    /\ pc = [w \in Workers |-> IF w = UnitWorker THEN "extract" ELSE "idle"]
    /\ \E kubeconfig \in ExtractDocs, context_name \in ContextArgs :
         loc = [w \in Workers |-> UnitLoc(kubeconfig, context_name)]
    /\ res = [w \in Workers |-> NoRes]
    /\ qlog = NoQuery

\* _extract_credentials_from_kubeconfig(kubeconfig, context_name)
Extract(w) ==
    /\ pc[w] = "extract"
    /\ LET out == extract_credentials_from_kubeconfig(loc[w].kubeconfig, loc[w].context_name) IN
       /\ res' = [res EXCEPT ![w] = [op |-> "extract", err |-> out.err, msg |-> out.msg,
                                     creds |-> out.creds]]
       /\ pc' = [pc EXCEPT ![w] = IF out.err = "" THEN "extracted" ELSE "raised"]
    /\ UNCHANGED <<now, sessions, objs, issued, clients, loc, qlog>>

\* ClusterSession(...) from the extracted bundle
UnitSession(w) ==
    /\ pc[w] = "extracted"
    /\ objs' = (UnitToken :> ClusterSession(UnitToken, "prod-eu", res[w].creds,
                                            now + 1, now))
    /\ pc' = [pc EXCEPT ![w] = "unit"]
    /\ UNCHANGED <<now, sessions, issued, clients, loc, res, qlog>>

\* session.get_k8s_client(), the call that constructs the handle
UnitAccessor(w) ==
    /\ pc[w] = "unit"
    /\ objs[UnitToken].k8s_client = NoClient
    /\ clients' = Append(clients,
                         DynamicKubernetesClient(objs[UnitToken].credentials, UnitToken))
    /\ objs' = [objs EXCEPT ![UnitToken].k8s_client = Len(clients) + 1]
    /\ UNCHANGED <<now, sessions, issued, pc, loc, res, qlog>>

\* a query through the handle: get_api_client() builds the ApiClient
UnitQuery(w) ==
    /\ pc[w] = "unit"
    /\ objs[UnitToken].k8s_client # NoClient
    /\ clients[objs[UnitToken].k8s_client].api_client = "none"
    /\ clients' = [clients EXCEPT ![objs[UnitToken].k8s_client] = get_api_client(@)]
    /\ UNCHANGED <<now, sessions, objs, issued, pc, loc, res, qlog>>

\* session.cleanup()
UnitRelease(w) ==
    /\ pc[w] = "unit"
    /\ loc[w].releases < MaxReleases
    /\ clients' = cleanup(objs[UnitToken], clients)
    /\ loc' = [loc EXCEPT ![w].releases = @ + 1]
    /\ UNCHANGED <<now, sessions, objs, issued, pc, res, qlog>>

UnitNext ==
    \E w \in {UnitWorker} :
        \/ Extract(w) \/ UnitSession(w)
        \/ UnitAccessor(w) \/ UnitQuery(w) \/ UnitRelease(w)

UnitSpec == UnitInit /\ [][UnitNext]_vars

\* ===================================================== the admin register API
\* admin_api.py, POST /clusters/register: the handler calls
\* session_manager.register_cluster, looks the new token up again, tries the
\* connection once and builds its response.  One client sends requests one
\* after the other; the clock moves at any time.

\* ClusterRegistrationRequest
ClusterRegistrationRequest(cluster_name, kubeconfig, context, ttl_hours) ==
    [cluster_name |-> cluster_name, kubeconfig |-> kubeconfig, context |-> context,
     ttl_hours |-> ttl_hours]

NoRequest == ClusterRegistrationRequest("", [parse |-> "null"], Absent, 0)

\* ClusterRegistrationResponse; session_token NoToken is None, expires_at is
\* there only when has_expires_at (isoformat() + "Z" renders it one to one);
\* err is the exception the handler caught, request what it was called with
ClusterRegistrationResponse(success, session_token, api_server, namespace, connectivity_status, has_expires_at, expires_at, error, err, request) ==
    [op |-> "admin_register", success |-> success, session_token |-> session_token,
     api_server |-> api_server, namespace |-> namespace,
     connectivity_status |-> connectivity_status, has_expires_at |-> has_expires_at,
     expires_at |-> expires_at, error |-> error, err |-> err, request |-> request]

\* lines 99-110: the response for an exception raised by register_cluster
AdminFailure(err, request) ==
    ClusterRegistrationResponse(FALSE, NoToken, "", "", "", FALSE, 0,
        IF err = "ValueError" THEN "Configuration error" ELSE "Registration failed",
        err, request)

\* the locals of the handler and of the register_cluster call it makes
AdminNoLoc ==
    [request |-> NoRequest, session_token |-> NoToken, credentials |-> NoCredentials,
     expires_at |-> 0, scan |-> <<>>, expired_tokens |-> <<>>, session |-> NoToken,
     connectivity_status |-> ""]

AdminInit ==
    /\ now = 0
    /\ sessions = <<>>
    /\ objs = <<>>
    /\ issued = {}
    /\ clients = <<>>
    /\ pc = [w \in Workers |-> "idle"]
    /\ loc = [w \in Workers |-> AdminNoLoc]
    /\ res = [w \in Workers |-> NoRes]
    /\ qlog = NoQuery

\* admin_api.py lines 63-70 into cluster_sessions.py lines 71-90: validate,
\* parse, extract, generate the token, compute expires_at; an exception goes to
\* the except clauses of the handler (lines 99-110)
AdminRegisterCall(w) ==
    /\ pc[w] = "idle"
    /\ \E cluster_name \in ClusterNames, doc \in RegisterDocs, ctx \in ContextArgs, ttl \in TTLs :
         LET request == ClusterRegistrationRequest(cluster_name, doc, ctx, ttl)
             out == register_prologue(doc, ctx, ttl) IN
         IF out.err # ""
         THEN /\ pc' = [pc EXCEPT ![w] = "responded"]
              /\ res' = [res EXCEPT ![w] = AdminFailure(out.err, request)]
              /\ UNCHANGED <<issued, loc>>
         ELSE \E tok \in generate_session_token(issued) :
              /\ issued' = issued \cup {tok}
              /\ pc' = [pc EXCEPT ![w] = "adm_insert"]
              /\ loc' = [loc EXCEPT ![w] =
                            [AdminNoLoc EXCEPT !.request = request, !.session_token = tok,
                                               !.credentials = out.creds,
                                               !.expires_at = now + ttl]]
              /\ UNCHANGED res
    /\ UNCHANGED <<now, sessions, objs, clients, qlog>>

\* cluster_sessions.py lines 92-101: construct the ClusterSession and store it
AdminInsert(w) ==
    /\ pc[w] = "adm_insert"
    /\ objs' = (loc[w].session_token :>
                   ClusterSession(loc[w].session_token, loc[w].request.cluster_name,
                                  loc[w].credentials, loc[w].expires_at, now)) @@ objs
    /\ sessions' = DictSet(sessions, loc[w].session_token)
    /\ pc' = [pc EXCEPT ![w] = "adm_scan"]
    /\ loc' = [loc EXCEPT ![w].scan = sessions']
    /\ UNCHANGED <<now, issued, clients, res, qlog>>

\* cluster_sessions.py lines 227-230: one entry of the sweep's scan
AdminSweepScan(w) ==
    /\ pc[w] = "adm_scan"
    /\ loc[w].scan # <<>>
    /\ LET token == Head(loc[w].scan) IN
       loc' = [loc EXCEPT ![w].scan = Tail(@),
                          ![w].expired_tokens =
                              IF is_expired(objs[token], now) THEN Append(@, token) ELSE @]
    /\ UNCHANGED <<now, sessions, objs, issued, clients, pc, res, qlog>>

\* cluster_sessions.py lines 231-232 and 106: the expired entries are
\* unregistered and register_cluster returns the token to the handler
AdminSweepRemove(w) ==
    /\ pc[w] = "adm_scan"
    /\ loc[w].scan = <<>>
    /\ LET R == UnregisterAll(Registry(sessions, clients, 0), objs, loc[w].expired_tokens) IN
       /\ sessions' = R.sessions
       /\ clients' = R.clients
    /\ pc' = [pc EXCEPT ![w] = "adm_get"]
    /\ loc' = [loc EXCEPT ![w].expired_tokens = <<>>]
    /\ UNCHANGED <<now, objs, issued, res, qlog>>

\* admin_api.py lines 73-74 and 84-86: the handler looks the token up
AdminGet(w) ==
    /\ pc[w] = "adm_get"
    /\ LET R == get_session(Registry(sessions, clients, 0), objs, loc[w].session_token, now) IN
       /\ sessions' = R.sessions
       /\ clients' = R.clients
       /\ loc' = [loc EXCEPT ![w].session = R.ret,
                             ![w].connectivity_status =
                                 IF R.ret = NoToken THEN "error" ELSE ""]
       /\ pc' = [pc EXCEPT ![w] = IF R.ret = NoToken THEN "adm_respond" ELSE "adm_test"]
    /\ UNCHANGED <<now, objs, issued, res, qlog>>

\* admin_api.py lines 75-83: the connectivity test.  get_k8s_client() builds
\* the handle of the new session; get_api_client() builds the ApiClient unless
\* it raises; any exception makes the status "warning"
AdminConnectivityTest(w) ==
    /\ pc[w] = "adm_test"
    /\ Len(clients) < MaxHandles
    /\ objs[loc[w].session].k8s_client = NoClient
    /\ \E built \in BOOLEAN, connectivity_status \in {"connected", "warning"} :
         /\ connectivity_status = "connected" => built
         /\ clients' = Append(clients,
                LET c == DynamicKubernetesClient(objs[loc[w].session].credentials,
                                                 loc[w].session) IN
                IF built THEN get_api_client(c) ELSE c)
         /\ loc' = [loc EXCEPT ![w].connectivity_status = connectivity_status]
    /\ objs' = [objs EXCEPT ![loc[w].session].k8s_client = Len(clients) + 1]
    /\ pc' = [pc EXCEPT ![w] = "adm_respond"]
    /\ UNCHANGED <<now, sessions, issued, res, qlog>>

\* admin_api.py lines 88-97: the success response
AdminRespond(w) ==
    /\ pc[w] = "adm_respond"
    /\ res' = [res EXCEPT ![w] =
                  IF loc[w].session # NoToken
                  THEN ClusterRegistrationResponse(TRUE, loc[w].session_token,
                           objs[loc[w].session].credentials.api_server,
                           objs[loc[w].session].credentials.namespace,
                           loc[w].connectivity_status, TRUE,
                           objs[loc[w].session].expires_at, "", "", loc[w].request)
                  ELSE ClusterRegistrationResponse(TRUE, loc[w].session_token,
                           "unknown", "default", loc[w].connectivity_status, FALSE, 0,
                           "", "", loc[w].request)]
    /\ pc' = [pc EXCEPT ![w] = "responded"]
    /\ loc' = [loc EXCEPT ![w] = AdminNoLoc]
    /\ UNCHANGED <<now, sessions, objs, issued, clients, qlog>>

\* admin_api.py lines 125-151, DELETE /clusters/{session_token}: the handler
\* looks the session up with get_session and calls unregister_cluster only if
\* a session was returned; pre is the registry when the request arrived
AdminUnregister(w) ==
    /\ pc[w] = "idle"
    /\ \E session_token \in Tokens :
         LET G == get_session(Registry(sessions, clients, 0), objs, session_token, now)
             U == unregister_cluster(G, objs, session_token) IN
         /\ sessions' = IF G.ret # NoToken THEN U.sessions ELSE G.sessions
         /\ clients' = IF G.ret # NoToken THEN U.clients ELSE G.clients
         /\ res' = [res EXCEPT ![w] =
                       [op |-> "admin_unregister", success |-> TRUE,
                        session_token |-> session_token,
                        cluster_name |-> IF G.ret # NoToken THEN objs[G.ret].cluster_name
                                         ELSE "unknown",
                        unregistered |-> IF G.ret # NoToken THEN U.ret = 1 ELSE FALSE,
                        pre |-> sessions, start |-> now]]
    /\ pc' = [pc EXCEPT ![w] = "unregistered"]
    /\ UNCHANGED <<now, objs, issued, loc, qlog>>

\* the response has been sent; sessions nothing refers to any more are freed
AdminReturn(w) ==
    /\ pc[w] \in {"responded", "unregistered"}
    /\ pc' = [pc EXCEPT ![w] = "idle"]
    /\ res' = [res EXCEPT ![w] = NoRes]
    /\ objs' = [t \in DOMAIN objs \cap Range(sessions) |-> objs[t]]
    /\ UNCHANGED <<now, sessions, issued, clients, loc, qlog>>

AdminNext ==
    \/ Tick
    \/ \E w \in {UnitWorker} :
         \/ AdminRegisterCall(w) \/ AdminInsert(w)
         \/ AdminSweepScan(w) \/ AdminSweepRemove(w)
         \/ AdminGet(w) \/ AdminConnectivityTest(w) \/ AdminRespond(w)
         \/ AdminUnregister(w)
         \/ AdminReturn(w)

AdminSpec == AdminInit /\ [][AdminNext]_vars

\* ================================================= the A2A server's start-up
\* server/main.py: main() builds the ApiKeyManager from the keys file, adds the
\* --auth-key key, decides use_auth, adds the keys of K8S_AI_AUTH_KEYS and
\* installs the authentication middleware if use_auth; then requests arrive.
\* The invocation is the serving one (no --generate-key, --list-keys or
\* --revoke-key, which exit before the server is built).

\* last_used of a key that was never used (None)
Never == -1

\* str.strip() on the pieces of the environment value
Strip(piece) ==
    CASE piece = " " -> ""
      [] piece = " sk-env " -> "sk-env"
      [] OTHER -> piece

\* the truth value Python gives a string option: None and "" are false
Truthy(option) == option # Absent /\ option # ""

\* the keys file: it exists or not, json.load accepts it or raises
\* JSONDecodeError, 'api_keys' is a list of entries (Absent: no such member),
\* an entry has a 'key' member or not
KeysFile(exists, json, api_keys) == [exists |-> exists, json |-> json, api_keys |-> api_keys]

KeysFiles ==
    {KeysFile(FALSE, FALSE, Absent), KeysFile(TRUE, FALSE, Absent),
     KeysFile(TRUE, TRUE, Absent), KeysFile(TRUE, TRUE, << >>),
     KeysFile(TRUE, TRUE, << [key |-> "sk-file"] >>),
     KeysFile(TRUE, TRUE, << [key |-> "sk-file"], [key |-> Absent] >>)}

\* the values of --auth-key
AuthKeys == {Absent, "", "sk-cli"}

\* the values of K8S_AI_AUTH_KEYS as env_keys.split(',') cuts them: unset,
\* "", " ,", "sk-env", " sk-env ,sk-cli"
NoEnv == << Absent >>
EnvKeys == {NoEnv, << "" >>, << " ", "" >>, << "sk-env" >>, << " sk-env ", "sk-cli" >>}

\* 'if env_keys:'
EnvTruthy(env_keys) == env_keys # NoEnv /\ env_keys # << "" >>

\* ApiKeyManager.load_keys: the keys of the file, each with its last_used;
\* JSONDecodeError and KeyError leave the manager without keys
load_keys(keys_file) ==
    IF ~keys_file.exists \/ ~keys_file.json \/ keys_file.api_keys = Absent
    THEN << >>
    ELSE IF \E i \in DOMAIN keys_file.api_keys : keys_file.api_keys[i].key = Absent
    THEN << >>
    ELSE [k \in {keys_file.api_keys[i].key : i \in DOMAIN keys_file.api_keys} |-> Never]

\* ApiKeyManager.add_single_key
add_single_key(keys, key) == [k \in DOMAIN keys \cup {key} |-> IF k = key THEN Never ELSE keys[k]]

\* lines 224-229: the stripped, non-empty pieces are added one after the other
RECURSIVE add_env_keys(_, _)
add_env_keys(keys, pieces) ==
    IF pieces = << >> THEN keys
    ELSE add_env_keys(IF Strip(Head(pieces)) # "" THEN add_single_key(keys, Strip(Head(pieces)))
                      ELSE keys,
                      Tail(pieces))

\* ApiKeyManager.validate_key at clock value t: the keys afterwards and the
\* verdict; a valid key has its last_used set (and the keys are saved)
validate_key(keys, key, t) ==
    IF key \in DOMAIN keys
    THEN [keys |-> [keys EXCEPT ![key] = t], ok |-> TRUE]
    ELSE [keys |-> keys, ok |-> FALSE]

\* the agent-card paths the middleware lets through, and another path
AgentCardPaths == {"/.well-known/agent.json", "/.well-known/agent-card.json"}
Paths == AgentCardPaths \cup {"/"}

\* an Authorization header: its first seven characters and the rest; no
\* header is the empty string
Header(prefix, rest) == [prefix |-> prefix, rest |-> rest]
Headers ==
    {Header("", "")}
    \cup {Header("Bearer ", k) : k \in {"sk-file", "sk-cli", "sk-env", "sk-nope", ""}}
    \cup {Header("bearer ", "sk-cli"), Header("Basic s", "k-cli")}

\* the answer to a request; passed: call_next was called, the request went
\* on to the application (for a path other than the agent card, to the
\* request handler and its diagnostic executor)
Response(path, header, status_code, code, passed) ==
    [op |-> "request", path |-> path, header |-> header, status_code |-> status_code,
     code |-> code, passed |-> passed]

\* create_auth_middleware.auth_middleware, lines 119-158
auth_middleware(keys, path, header, t) ==
    IF path \in AgentCardPaths
    THEN [keys |-> keys, response |-> Response(path, header, 200, 0, TRUE)]
    ELSE IF header.prefix # "Bearer "
    THEN [keys |-> keys, response |-> Response(path, header, 401, -32002, FALSE)]
    ELSE IF ~validate_key(keys, header.rest, t).ok
    THEN [keys |-> keys, response |-> Response(path, header, 401, -32001, FALSE)]
    ELSE [keys |-> validate_key(keys, header.rest, t).keys,
          response |-> Response(path, header, 200, 0, TRUE)]

\* the server: its invocation (keys_file, auth_key, env_keys), the keys of the
\* ApiKeyManager, use_auth, whether the middleware is installed, and the keys
\* save_keys wrote to the keys file (Absent: nothing written)
ServerNoLoc ==
    [keys_file |-> KeysFile(FALSE, FALSE, Absent), auth_key |-> Absent, env_keys |-> NoEnv,
     keys |-> << >>, use_auth |-> FALSE, middleware |-> FALSE, written |-> {Absent}]

ServerInit ==
    /\ now = 0
    /\ sessions = <<>>
    /\ objs = <<>>
    /\ issued = {}
    /\ clients = <<>>
    /\ pc = [w \in Workers |-> IF w = UnitWorker THEN "boot" ELSE "idle"]
    /\ \E keys_file \in KeysFiles, auth_key \in AuthKeys, env_keys \in EnvKeys :
         loc = [w \in Workers |->
                   IF w = UnitWorker
                   THEN [ServerNoLoc EXCEPT !.keys_file = keys_file, !.auth_key = auth_key,
                                            !.env_keys = env_keys]
                   ELSE ServerNoLoc]
    /\ res = [w \in Workers |-> NoRes]
    /\ qlog = NoQuery

\* line 184: ApiKeyManager(args.keys_file)
ServerLoadKeys(w) ==
    /\ pc[w] = "boot"
    /\ loc' = [loc EXCEPT ![w].keys = load_keys(loc[w].keys_file)]
    /\ pc' = [pc EXCEPT ![w] = "auth_key"]
    /\ UNCHANGED <<now, sessions, objs, issued, clients, res, qlog>>

\* lines 211-221: the --auth-key key is added and use_auth is decided
ServerUseAuth(w) ==
    /\ pc[w] = "auth_key"
    /\ LET keys == IF Truthy(loc[w].auth_key) THEN add_single_key(loc[w].keys, loc[w].auth_key)
                   ELSE loc[w].keys IN
       loc' = [loc EXCEPT ![w].keys = keys,
                          ![w].use_auth = (DOMAIN keys # {} \/ Truthy(loc[w].auth_key))]
    /\ pc' = [pc EXCEPT ![w] = "env_keys"]
    /\ UNCHANGED <<now, sessions, objs, issued, clients, res, qlog>>

\* lines 224-230: the keys of the environment are added
ServerEnvKeys(w) ==
    /\ pc[w] = "env_keys"
    /\ loc' = [loc EXCEPT ![w].keys = IF EnvTruthy(loc[w].env_keys)
                                      THEN add_env_keys(@, loc[w].env_keys) ELSE @]
    /\ pc' = [pc EXCEPT ![w] = "build"]
    /\ UNCHANGED <<now, sessions, objs, issued, clients, res, qlog>>

\* lines 232-290: the application is built, the middleware installed if use_auth
ServerBuild(w) ==
    /\ pc[w] = "build"
    /\ loc' = [loc EXCEPT ![w].middleware = loc[w].use_auth]
    /\ pc' = [pc EXCEPT ![w] = "serving"]
    /\ UNCHANGED <<now, sessions, objs, issued, clients, res, qlog>>

\* a request to the A2A application: through the middleware if it is
\* installed, straight to the application if not
ServerRequest(w) ==
    /\ pc[w] = "serving"
    /\ \E path \in Paths, header \in Headers :
         IF loc[w].middleware
         THEN LET out == auth_middleware(loc[w].keys, path, header, now) IN
              /\ loc' = [loc EXCEPT ![w].keys = out.keys,
                                    ![w].written = IF out.keys # loc[w].keys
                                                   THEN DOMAIN out.keys ELSE @]
              /\ res' = [res EXCEPT ![w] = out.response]
         ELSE /\ res' = [res EXCEPT ![w] = Response(path, header, 200, 0, TRUE)]
              /\ UNCHANGED loc
    /\ UNCHANGED <<now, sessions, objs, issued, clients, pc, qlog>>

ServerNext ==
    \/ Tick
    \/ \E w \in {UnitWorker} :
         \/ ServerLoadKeys(w) \/ ServerUseAuth(w) \/ ServerEnvKeys(w)
         \/ ServerBuild(w) \/ ServerRequest(w)

ServerSpec == ServerInit /\ [][ServerNext]_vars

\* ============================================================== properties
\* worker w's handler of operation op has returned and its result is in res[w]
Finished(w, op) == pc[w] = "done" /\ res[w].op = op

\* the session_token column of a list of summaries
SummaryTokens(summaries) == [i \in DOMAIN summaries |-> summaries[i].session_token]

\* C1: get(token) returns a session only if the registry held an entry under
\* exactly that token and the clock is not past its expires_at; if the entry
\* exists and now > expires_at, get returns None and the entry is gone when
\* get returns; list returns exactly the entries the registry holds, so a
\* later list does not show the removed token.
GetReturnsOnlyLiveSessions ==
    \A w \in Workers :
        /\ Finished(w, "get") =>
             LET r == res[w] IN
             /\ r.token # NoToken =>
                  /\ r.token = r.arg
                  /\ r.arg \in Range(r.pre)
                  /\ ~(r.start > objs[r.arg].expires_at)
             /\ (r.arg \in Range(r.pre) /\ r.start > objs[r.arg].expires_at) =>
                  /\ r.token = NoToken
                  /\ r.arg \notin Range(sessions)
        /\ Finished(w, "list") => SummaryTokens(res[w].summaries) = sessions

\* get was called after the expires_at of a session registered with a positive
\* TTL, while the registry still held it
GetFoundExpiredEntry ==
    \E w \in Workers :
        /\ Finished(w, "get")
        /\ res[w].arg \in Range(res[w].pre)
        /\ res[w].start > objs[res[w].arg].expires_at
        /\ objs[res[w].arg].expires_at > objs[res[w].arg].created_at

\* C2: after register, get, unregister or list has completed, no entry of the
\* registry has an expires_at earlier than the time the operation was called
\* (read in the code's favour: the clock at the call, not at the return; and
\* only entries registered with a positive TTL are looked at).
NoExpiredEntryAfterOperation ==
    \A w \in Workers :
        (pc[w] = "done" /\ res[w].op \in {"register", "get", "unregister", "list"}) =>
            \A t \in Range(sessions) :
                objs[t].expires_at > objs[t].created_at =>
                    ~(objs[t].expires_at < res[w].start)

\* C3: register fails with a ValueError and returns no token for every
\* ttl_hours <= 0 and every ttl_hours > 168.
RegisterRejectsTtlOutOfRange ==
    \A w \in Workers :
        (Finished(w, "register") /\ (res[w].ttl <= 0 \/ res[w].ttl > MaxTtlHours)) =>
            /\ ~res[w].ok
            /\ res[w].err = "ValueError"
            /\ res[w].token = NoToken

\* C4 as stated: after a successful register with a TTL in (0, 168] has
\* returned token t, the session is in the registry under t.
RegisteredSessionIsPresent ==
    \A w \in Workers :
        (Finished(w, "register") /\ res[w].ok
            /\ 0 < res[w].ttl /\ res[w].ttl <= MaxTtlHours) =>
            res[w].token \in Range(sessions)

\* the results that C4 is about
RegisteredAndFound ==
    \A w \in Workers :
        /\ (Finished(w, "register") /\ res[w].ok) =>
             \/ res[w].token \in Range(sessions)
             \/ res[w].at > objs[res[w].token].expires_at
        /\ (Finished(w, "get") /\ res[w].arg \in Range(res[w].pre)
               /\ res[w].start <= objs[res[w].arg].expires_at) =>
             /\ res[w].token = res[w].arg
             /\ res[w].arg \in Range(sessions)

\* an entry leaves the registry only past its expires_at or by unregister
LeavesByExpiryOrUnregister ==
    \A t \in Tokens :
        (t \in Range(sessions) /\ t \notin Range(sessions')) =>
            \/ now > objs[t].expires_at
            \/ \E w \in Workers :
                 pc'[w] = "done" /\ res'[w].op = "unregister" /\ res'[w].arg = t

\* C4, amended: after a successful register has returned token t, the session
\* is in the registry under t unless the clock had passed its expires_at
\* before register returned; an entry leaves the registry only past its
\* expires_at or by unregister of its token; and get(t), called while the
\* entry is there and the clock is not past expires_at, returns that session
\* and leaves it in the registry.
RegisteredSessionStaysUntilExpiry ==
    [](RegisteredAndFound) /\ [][LeavesByExpiryOrUnregister]_vars

\* get, called at the very instant expires_at of a session registered with a
\* positive TTL, returned the session
GetAtDeadlineReturnsSession ==
    \E w \in Workers :
        /\ Finished(w, "get")
        /\ res[w].token # NoToken
        /\ res[w].start = objs[res[w].token].expires_at
        /\ objs[res[w].token].expires_at > objs[res[w].token].created_at

HandleReleasedExactlyOnce ==
    \A i \in DOMAIN clients :
        /\ clients[i].closes = IF clients[i].owner \in Range(sessions) THEN 0 ELSE 1
        /\ clients[i].api_closes <= 1
        /\ clients[i].api_client = "open" => clients[i].owner \in Range(sessions)

\* the sweep of a list call removed an expired session whose handle had an
\* open ApiClient, and closed it
SweepReleasedHandle ==
    \E w \in Workers, i \in DOMAIN clients :
        /\ pc[w] = "list_dict"
        /\ clients[i].owner \in Range(loc[w].pre)
        /\ clients[i].owner \notin Range(sessions)
        /\ clients[i].closes = 1
        /\ clients[i].api_closes = 1

\* C8: a read query is issued through a session's handle only while the
\* session is in the registry and the clock is not past its expires_at (only
\* sessions registered with a positive TTL are looked at).
QueryOnlyOnLiveSession ==
    (qlog.token # NoToken /\ qlog.expires_at > qlog.created_at) =>
        /\ qlog.present
        /\ ~(qlog.at > qlog.expires_at)

\* C10: when register fails, the registry, the session objects, the client
\* handles and the tokens issued are what they were before the call, and no
\* token is returned.
FailedRegisterChangesNothing ==
    [][\A w \in Workers :
          (pc[w] = "idle" /\ pc'[w] = "done" /\ res'[w].op = "register" /\ ~res'[w].ok) =>
              /\ sessions' = sessions
              /\ objs' = objs
              /\ clients' = clients
              /\ issued' = issued
              /\ res'[w].token = NoToken]_vars

\* register failed in credential extraction while the registry held a session
RegisterFailedOnNonEmptyRegistry ==
    \E w \in Workers :
        /\ Finished(w, "register")
        /\ ~res[w].ok
        /\ res[w].msg = "No supported authentication method found in kubeconfig"
        /\ res[w].pre # <<>>
        /\ sessions = res[w].pre

\* the handles constructed for session t
HandlesOf(t) == {i \in DOMAIN clients : clients[i].owner = t}

\* C11: unregister(token) never raises; for a token with no entry it returns
\* False and leaves the registry as it was; for a token with an entry it
\* returns True and the entry is gone, the other entries staying; the token
\* has no entry afterwards, so a second unregister of it returns False.
UnregisterReportsRemoval ==
    \A w \in Workers :
        Finished(w, "unregister") =>
            /\ res[w].err = ""
            /\ res[w].ok <=> res[w].arg \in Range(res[w].pre)
            /\ ~res[w].ok => sessions = res[w].pre
            /\ res[w].arg \notin Range(sessions)
            /\ Range(sessions) = Range(res[w].pre) \ {res[w].arg}

\* unregister of a token that had been issued and has no entry any more
\* returned False, the registry holding another session
UnregisterOfRemovedToken ==
    \E w \in Workers :
        /\ Finished(w, "unregister")
        /\ ~res[w].ok
        /\ res[w].arg \in issued
        /\ res[w].pre # <<>>

\* C12: unregister(token) on an entry whose expires_at has passed and that no
\* sweep has removed yet returns True, removes the entry and closes the
\* session's handle, if one was constructed, with its ApiClient.
UnregisterRemovesExpiredEntry ==
    \A w \in Workers :
        (Finished(w, "unregister") /\ res[w].arg \in Range(res[w].pre)
            /\ res[w].start > objs[res[w].arg].expires_at) =>
            /\ res[w].ok
            /\ res[w].arg \notin Range(sessions)
            /\ \A i \in HandlesOf(res[w].arg) :
                 clients[i].closes = 1 /\ clients[i].api_client # "open"

\* unregister removed an expired entry (registered with a positive TTL) whose
\* handle had an open ApiClient
UnregisterReleasedExpiredSession ==
    \E w \in Workers :
        /\ Finished(w, "unregister")
        /\ res[w].arg \in Range(res[w].pre)
        /\ res[w].start > objs[res[w].arg].expires_at
        /\ objs[res[w].arg].expires_at > objs[res[w].arg].created_at
        /\ \E i \in HandlesOf(res[w].arg) : clients[i].api_closes = 1

AccessorIsMemoized ==
    [][/\ \A t \in DOMAIN objs \cap DOMAIN objs' :
             objs[t].k8s_client # NoClient => objs'[t].k8s_client = objs[t].k8s_client
       /\ Len(clients') > Len(clients) =>
             \E w \in Workers :
                 /\ pc[w] = "acc_new"
                 /\ objs[loc[w].session].k8s_client = NoClient
                 /\ Len(clients') = Len(clients) + 1
       /\ \A w \in Workers :
             (pc[w] \in {"acc_check", "acc_new"} /\ pc'[w] = "query") =>
                 /\ loc'[w].client # NoClient
                 /\ loc'[w].client = objs'[loc[w].session].k8s_client]_vars

\* a request naming an unknown skill called the accessor and issued no query,
\* and the handle it received has an open ApiClient: the accessor returned the
\* handle an earlier call had constructed
SecondCallReturnedFirstHandle ==
    \E w \in Workers :
        /\ Finished(w, "diag")
        /\ res[w].msg = "Unknown diagnostic skill"
        /\ clients[res[w].client].api_client = "open"

\* C15: cleanup() is idempotent: on a session whose handle was never
\* constructed it does nothing, and a second cleanup() performs no further
\* disposal on the handle (its ApiClient is not closed again).
ReleaseIsIdempotent ==
    pc[UnitWorker] = "unit" =>
        /\ objs[UnitToken].k8s_client = NoClient => clients = <<>>
        /\ \A i \in DOMAIN clients : clients[i].api_closes <= 1

\* C16: every session in the registry has expires_at = created_at + ttl,
\* where ttl is the ttl_hours passed to register and 0 < ttl <= 168 (looked at
\* when register returns, where ttl_hours is at hand).
ExpiresAtIsCreatedAtPlusTtl ==
    \A w \in Workers :
        (Finished(w, "register") /\ res[w].ok /\ res[w].token \in Range(sessions)) =>
            /\ objs[res[w].token].expires_at = objs[res[w].token].created_at + res[w].ttl
            /\ 0 < res[w].ttl
            /\ res[w].ttl <= MaxTtlHours

\* the extraction called by the unit caller has returned a bundle
Extracted == pc[UnitWorker] # "extract" /\ res[UnitWorker].err = ""

\* the user entry the extraction resolves for the unit caller's arguments
\* (NotFound when the document is no mapping or the resolution fails)
ResolvedUser ==
    LET kubeconfig == loc[UnitWorker].kubeconfig IN
    IF kubeconfig.parse # "mapping" THEN NotFound
    ELSE LET context == ResolveContext(kubeconfig, loc[UnitWorker].context_name) IN
         IF context = NotFound \/ context.user = Absent THEN NotFound
         ELSE SelectFirst(kubeconfig.users, context.user)

\* the entry supplies a client certificate and a client key, each inline or
\* as a file reference
SuppliesPair(user_info) ==
    /\ user_info.cert_data # Absent \/ user_info.cert_file # Absent
    /\ user_info.key_data # Absent \/ user_info.key_file # Absent

\* C17: every bundle a successful extraction returns has exactly one
\* authentication method populated: a non-empty token, or a non-empty client
\* certificate with a non-empty client key; never both, never neither.
ExactlyOneAuthMethod ==
    Extracted =>
        LET creds == res[UnitWorker].creds IN
        (creds.token # "") # (creds.client_cert # "" /\ creds.client_key # "")

\* C18: the extraction fails with a ValueError whenever the resolved user
\* entry supplies neither a (non-empty) bearer token nor a client
\* certificate/key pair.
NoAuthMethodIsRejected ==
    (pc[UnitWorker] # "extract" /\ ResolvedUser # NotFound
        /\ ResolvedUser.token \in {Absent, ""} /\ ~SuppliesPair(ResolvedUser)) =>
        res[UnitWorker].err = "ValueError"

\* C19: when the resolved user entry supplies both a bearer token and a client
\* certificate/key pair, the extracted bundle carries that token and its
\* client_cert and client_key are empty.
TokenWinsOverPair ==
    (Extracted /\ ResolvedUser # NotFound /\ ResolvedUser.token # Absent
        /\ SuppliesPair(ResolvedUser)) =>
        /\ res[UnitWorker].creds.token = ResolvedUser.token
        /\ res[UnitWorker].creds.client_cert = ""
        /\ res[UnitWorker].creds.client_key = ""

\* a bundle was extracted from a user entry with a token and an inline
\* certificate/key pair
ExtractedFromTokenAndPair ==
    /\ Extracted
    /\ ResolvedUser # NotFound
    /\ ResolvedUser.token \notin {Absent, ""}
    /\ ResolvedUser.cert_data # Absent
    /\ ResolvedUser.key_data # Absent
    /\ res[UnitWorker].creds.token = ResolvedUser.token

\* the names in the context list of the unit caller's document
ContextNames ==
    {loc[UnitWorker].kubeconfig.contexts[i].name :
        i \in DOMAIN loc[UnitWorker].kubeconfig.contexts}

\* C20: for a document that is a mapping, the extraction fails with a
\* ValueError when context_name is given and is not in the context list, and
\* when context_name is omitted and current-context is missing or not in the
\* context list.
UnknownContextIsRejected ==
    (pc[UnitWorker] # "extract" /\ loc[UnitWorker].kubeconfig.parse = "mapping") =>
        LET context_name == loc[UnitWorker].context_name
            current_context == loc[UnitWorker].kubeconfig.current_context IN
        /\ (context_name # Absent /\ context_name \notin ContextNames) =>
               res[UnitWorker].err = "ValueError"
        /\ (context_name = Absent
               /\ (current_context = Absent \/ current_context \notin ContextNames)) =>
               res[UnitWorker].err = "ValueError"

\* the name by which the extraction picks the context: the argument, or the
\* document's current-context when the argument is None or empty
UnitContextName ==
    IF loc[UnitWorker].context_name \notin {Absent, ""}
    THEN loc[UnitWorker].context_name
    ELSE loc[UnitWorker].kubeconfig.current_context

\* the names of the entries of a list of the document
NamesIn(seq) == {seq[i].name : i \in DOMAIN seq}

\* the context entries of the unit caller's document under the resolved name
\* that name both a cluster and a user
UnitContexts ==
    LET contexts == loc[UnitWorker].kubeconfig.contexts IN
    {contexts[i] : i \in {j \in DOMAIN contexts :
                             /\ contexts[j].name = UnitContextName
                             /\ contexts[j].cluster # Absent
                             /\ contexts[j].user # Absent}}

\* C21: when the resolved context names a cluster and a user and the cluster
\* name or the user name has no entry in the document's cluster or user list,
\* the extraction fails with a ValueError (the error the admin API reports as
\* a configuration error).
MissingReferenceIsRejected ==
    (pc[UnitWorker] # "extract" /\ loc[UnitWorker].kubeconfig.parse = "mapping") =>
        \A context \in UnitContexts :
            (\/ context.cluster \notin NamesIn(loc[UnitWorker].kubeconfig.clusters)
             \/ context.user \notin NamesIn(loc[UnitWorker].kubeconfig.users)) =>
                res[UnitWorker].err = "ValueError"

\* the extraction was called on a document whose context names a user that is
\* in no entry of the user list, the cluster being there, and raised
UserReferenceWasMissing ==
    /\ pc[UnitWorker] = "raised"
    /\ loc[UnitWorker].kubeconfig.parse = "mapping"
    /\ \E context \in UnitContexts :
         /\ context.cluster \in NamesIn(loc[UnitWorker].kubeconfig.clusters)
         /\ context.user \notin NamesIn(loc[UnitWorker].kubeconfig.users)
    /\ res[UnitWorker].msg = "user not found"

\* C22: when the resolved cluster entry has no endpoint address (no server
\* key), the extraction fails with a ValueError, the error kind of the other
\* extraction failures.
MissingEndpointIsRejected ==
    (pc[UnitWorker] # "extract" /\ loc[UnitWorker].kubeconfig.parse = "mapping") =>
        \A context \in UnitContexts :
            \A i \in DOMAIN loc[UnitWorker].kubeconfig.clusters :
                LET cluster == loc[UnitWorker].kubeconfig.clusters[i] IN
                (/\ cluster.name = context.cluster
                 /\ context.user \in NamesIn(loc[UnitWorker].kubeconfig.users)
                 /\ cluster.server = Absent) =>
                    res[UnitWorker].err = "ValueError"

\* the admin register handler of worker w has built its response
Responded(w) == pc[w] = "responded"

\* C23: register fails with a ValueError (answered as a configuration error)
\* for every document that is not well-formed: one the YAML parser rejects and
\* one that parses to something that is no mapping (an empty document, a bare
\* scalar).
MalformedDocumentIsRejected ==
    \A w \in Workers :
        (Responded(w) /\ res[w].request.kubeconfig.parse # "mapping"
            /\ res[w].request.ttl_hours <= MaxTtlHours) =>
            /\ ~res[w].success
            /\ res[w].err = "ValueError"
            /\ res[w].error = "Configuration error"

\* C26: every success response of the admin register handler carries the
\* issued token with the api_server, namespace and expires_at of the session
\* the registry holds under that token; every other response is a failure with
\* a reason and no token.
RegisterResponseIsComplete ==
    \A w \in Workers :
        Responded(w) =>
            IF res[w].success
            THEN /\ res[w].session_token # NoToken
                 /\ res[w].session_token \in Range(sessions)
                 /\ res[w].api_server = objs[res[w].session_token].credentials.api_server
                 /\ res[w].namespace = objs[res[w].session_token].credentials.namespace
                 /\ res[w].has_expires_at
                 /\ res[w].expires_at = objs[res[w].session_token].expires_at
            ELSE /\ res[w].error # ""
                 /\ res[w].session_token = NoToken

\* what the caller of get or of the executor sees of a result
Observable(r) == [ok |-> r.ok, token |-> r.token, client |-> r.client, err |-> r.err,
                  msg |-> r.msg, summaries |-> r.summaries]

\* the token of result r had no entry when the call was made / had an entry
\* that was expired when the call was made
NeverThere(r) == r.arg \notin Range(r.pre)
ExpiredThere(r) == r.arg \in Range(r.pre) /\ r.start > objs[r.arg].expires_at

\* C24: a get and a diagnostic request presenting an expired token give the
\* caller the result that one presenting a token with no entry gives: get
\* returns None in both cases and the executor the same failure, so the result
\* is one fixed value whatever the cause.
ExpiredLooksLikeUnknown ==
    \A w \in Workers :
        /\ (Finished(w, "get") /\ (NeverThere(res[w]) \/ ExpiredThere(res[w]))) =>
               Observable(res[w]) = Observable(NoRes)
        /\ (Finished(w, "diag") /\ res[w].arg # NoToken /\ res[w].token = NoToken) =>
               /\ NeverThere(res[w]) \/ ExpiredThere(res[w])
               /\ Observable(res[w]) =
                      Observable([NoRes EXCEPT !.msg = "Invalid or expired session token"])
        /\ (Finished(w, "diag") /\ res[w].arg # NoToken
                /\ (NeverThere(res[w]) \/ ExpiredThere(res[w]))) =>
               res[w].token = NoToken

\* the executor answered a request that presented an expired token whose
\* entry was still in the registry
DiagOnExpiredToken ==
    \E w \in Workers :
        /\ Finished(w, "diag")
        /\ ExpiredThere(res[w])
        /\ res[w].msg = "Invalid or expired session token"

\* C25: when a read query issued through a session's handle raises, the
\* executor returns the failure to the caller of that request and nothing
\* else changes: the registry, the session and its handle are as they were, so
\* the session is still registered.
QueryFailureKeepsSession ==
    [][\A w \in Workers :
          (pc[w] = "query_wait" /\ pc'[w] = "done" /\ res'[w].err # "") =>
              /\ ~res'[w].ok
              /\ res'[w].token = loc[w].session
              /\ sessions' = sessions
              /\ objs' = objs
              /\ clients' = clients
              /\ loc[w].session \in Range(sessions')
              /\ clients'[loc[w].client].closes = 0]_vars

\* a query raised, the failure was returned, and the session is registered and
\* not yet expired
QueryFailedSessionAlive ==
    \E w \in Workers :
        /\ Finished(w, "diag")
        /\ res[w].err = "Exception"
        /\ res[w].token \in Range(sessions)
        /\ now <= objs[res[w].token].expires_at

\* C27: the executor issues a read query only in a request in which
\* get(session_token) returned a session that was not expired at that moment;
\* a request whose session_token is missing, unknown or expired returns a
\* failure at once: it constructs no handle and issues no query.
QueryOnlyAfterLookup ==
    [][/\ \A w \in Workers :
            (pc[w] = "idle" /\ pc'[w] = "acc_check") =>
                /\ loc'[w].session \in Range(sessions)
                /\ now <= objs[loc'[w].session].expires_at
       /\ \A w \in Workers :
            (pc[w] = "idle" /\ pc'[w] = "done" /\ res'[w].op = "diag") =>
                /\ \/ res'[w].arg = NoToken
                   \/ res'[w].arg \notin Range(sessions)
                   \/ now > objs[res'[w].arg].expires_at
                /\ ~res'[w].ok
                /\ Len(clients') = Len(clients)
                /\ qlog' = qlog
       /\ (qlog'.token # NoToken /\ qlog' # qlog) =>
            \E w \in Workers :
                /\ pc[w] = "query"
                /\ loc[w].session = qlog'.token
                /\ loc[w].start <= objs[loc[w].session].expires_at
                /\ loc[w].session \in Range(loc[w].pre)]_vars

\* a query is in flight for a request whose lookup happened at an earlier
\* clock value
QueryInFlightAfterLookup ==
    \E w \in Workers :
        /\ pc[w] = "query_wait"
        /\ qlog.token = loc[w].session
        /\ loc[w].start < now

\* the step is a step of register, list, get (also the executor's get) or
\* unregister by worker w
RegistryOperationStep(w) ==
    \/ pc[w] \in {"reg_insert", "reg_scan", "list_scan"}
    \/ /\ pc[w] = "idle"
       /\ \/ pc'[w] = "done" /\ res'[w].op \in {"get", "unregister", "diag"}
          \/ pc'[w] = "acc_check"

\* C28: the registry mapping changes, and a handle is released, only in a
\* step of register, get, list or unregister; a step of the clock changes
\* neither, so an expired session stays in the table with its handle
\* unreleased until one of those operations removes it.
RegistryChangesOnlyInOperations ==
    [][/\ (sessions' # sessions
             \/ \E i \in DOMAIN clients : clients'[i].closes # clients[i].closes) =>
              \E w \in Workers : RegistryOperationStep(w)
       /\ now' # now =>
              /\ sessions' = sessions
              /\ objs' = objs
              /\ clients' = clients]_vars

\* no handler is running, and the table holds a session that expired at an
\* earlier clock value, its handle not released
ExpiredSessionStillInTable ==
    /\ \A w \in Workers : pc[w] = "idle"
    /\ \E t \in Range(sessions) :
         /\ now > objs[t].expires_at
         /\ objs[t].expires_at > objs[t].created_at
         /\ objs[t].k8s_client # NoClient
         /\ clients[objs[t].k8s_client].closes = 0
         /\ clients[objs[t].k8s_client].api_client = "open"

\* the fields of a session other than the memoized handle
Immutable(session) ==
    [session_token |-> session.session_token, cluster_name |-> session.cluster_name,
     credentials |-> session.credentials, created_at |-> session.created_at,
     expires_at |-> session.expires_at]

\* C29: while a session exists its token, cluster name, credentials,
\* created_at and expires_at never change, whatever operation is made (get and
\* the handle accessor do not move expires_at); only the memoized handle does.
SessionFieldsNeverChange ==
    [][\A t \in DOMAIN objs \cap DOMAIN objs' :
          /\ Immutable(objs'[t]) = Immutable(objs[t])
          /\ objs'[t].session_token = t]_vars

\* a get returned a session at a clock value after its creation, the accessor
\* having memoized its handle before
GetReturnedSessionWithHandle ==
    \E w \in Workers :
        /\ Finished(w, "get")
        /\ res[w].ok
        /\ objs[res[w].token].k8s_client # NoClient
        /\ res[w].start > objs[res[w].token].created_at

\* C30: no client handle is the handle of two sessions or reached through two
\* tokens: the memo fields of two sessions never name the same handle, each
\* handle was built for the session that holds it, and a request holds the
\* handle of the session its token resolved to.
NoHandleSharedAcrossSessions ==
    /\ \A t1, t2 \in DOMAIN objs :
         (t1 # t2 /\ objs[t1].k8s_client # NoClient) =>
             objs[t1].k8s_client # objs[t2].k8s_client
    /\ \A t \in DOMAIN objs :
         objs[t].k8s_client # NoClient => clients[objs[t].k8s_client].owner = t
    /\ \A w \in Workers :
         (pc[w] \in {"query", "query_wait"} /\ loc[w].client # NoClient) =>
             clients[loc[w].client].owner = loc[w].session

\* two sessions registered with the same credentials are in the registry and
\* each has its handle
TwoSessionsSameCredentialsTwoHandles ==
    \E t1, t2 \in Range(sessions) :
        /\ t1 # t2
        /\ objs[t1].credentials = objs[t2].credentials
        /\ objs[t1].k8s_client # NoClient
        /\ objs[t2].k8s_client # NoClient

\* C31: after a session has been released nothing its handle owned remains:
\* the ApiClient is closed, and no temporary file the handle wrote for the
\* client certificate, the client key or the CA certificate is left on disk.
ReleaseLeavesNoResource ==
    (pc[UnitWorker] = "unit" /\ loc[UnitWorker].releases > 0) =>
        \A i \in DOMAIN clients :
            /\ clients[i].api_client # "open"
            /\ clients[i].temp_files = {}

\* the context entry the extraction selects for the unit caller's arguments
\* (NotFound when the document is no mapping or no context is selected)
ResolvedContext ==
    IF loc[UnitWorker].kubeconfig.parse # "mapping" THEN NotFound
    ELSE ResolveContext(loc[UnitWorker].kubeconfig, loc[UnitWorker].context_name)

\* the cluster entry the selected context names (NotFound when there is none)
ResolvedCluster ==
    IF ResolvedContext = NotFound \/ ResolvedContext.cluster = Absent THEN NotFound
    ELSE SelectFirst(loc[UnitWorker].kubeconfig.clusters, ResolvedContext.cluster)

\* the cluster entry has an endpoint, and CA material that can be had: inline
\* data that decodes, or else a file that can be read, or none
ClusterUsable(cluster) ==
    /\ cluster # NotFound
    /\ cluster.server # Absent
    /\ IF cluster.ca_data # Absent THEN B64Valid(cluster.ca_data)
       ELSE cluster.ca_file # Absent => FileExists(cluster.ca_file)

\* the certificate (key) of a user entry can be had: inline data that decodes,
\* or else a file that can be read
MaterialUsable(data, file) ==
    IF data # Absent THEN B64Valid(data) ELSE file # Absent /\ FileExists(file)
Material(data, file) == IF data # Absent THEN B64Decode(data) ELSE Files[file]

\* C32: for a user entry without a token that supplies a client certificate
\* and a client key, each inline or as a file reference (any of the four
\* combinations), the extraction succeeds and the bundle carries that
\* certificate and that key.
AnyPairCombinationIsAccepted ==
    (/\ pc[UnitWorker] # "extract"
     /\ ClusterUsable(ResolvedCluster)
     /\ ResolvedUser # NotFound
     /\ ResolvedUser.token = Absent
     /\ MaterialUsable(ResolvedUser.cert_data, ResolvedUser.cert_file)
     /\ MaterialUsable(ResolvedUser.key_data, ResolvedUser.key_file)) =>
        /\ Extracted
        /\ res[UnitWorker].creds.token = ""
        /\ res[UnitWorker].creds.client_cert =
               Material(ResolvedUser.cert_data, ResolvedUser.cert_file)
        /\ res[UnitWorker].creds.client_key =
               Material(ResolvedUser.key_data, ResolvedUser.key_file)

\* the selected context names a cluster with an endpoint and a user with a
\* bearer token, both in the document
TokenUserOnCluster ==
    /\ pc[UnitWorker] # "extract"
    /\ ResolvedCluster # NotFound
    /\ ResolvedCluster.server # Absent
    /\ ResolvedUser # NotFound
    /\ ResolvedUser.token # Absent

\* the bundle has the cluster's endpoint, the user's token and the context's
\* namespace ("default" when the context has none)
BundleOfSelection ==
    /\ Extracted
    /\ res[UnitWorker].creds.api_server = ResolvedCluster.server
    /\ res[UnitWorker].creds.token = ResolvedUser.token
    /\ res[UnitWorker].creds.namespace =
           IF ResolvedContext.namespace = Absent THEN "default"
           ELSE ResolvedContext.namespace

SuppliedContextIsNeverReplaced ==
    (/\ pc[UnitWorker] # "extract"
     /\ loc[UnitWorker].kubeconfig.parse = "mapping"
     /\ loc[UnitWorker].context_name # Absent) =>
        \/ res[UnitWorker].err # ""
        \/ /\ loc[UnitWorker].context_name \in ContextNames
           /\ LET context == SelectFirst(loc[UnitWorker].kubeconfig.contexts,
                                         loc[UnitWorker].context_name) IN
              res[UnitWorker].creds.api_server =
                  SelectFirst(loc[UnitWorker].kubeconfig.clusters, context.cluster).server

\* C34: whatever the order of get, unregister, the sweep and the first call
\* of the accessor, a handle is constructed only for a session that is in the
\* registry, and every handle that has not been released is the memoized
\* handle of a session in the registry, where unregister or a sweep will
\* release it.
HandleOnlyForRegisteredSession ==
    [][/\ Len(clients') > Len(clients) =>
            /\ clients'[Len(clients')].owner \in Range(sessions)
            /\ clients'[Len(clients')].owner \in Range(sessions')
       /\ \A i \in DOMAIN clients' :
            clients'[i].closes = 0 =>
                /\ clients'[i].owner \in Range(sessions')
                /\ objs'[clients'[i].owner].k8s_client = i]_vars

\* a request holds the handle that was constructed for its session after the
\* session had expired, the session being still in the registry
HandleBuiltForExpiredEntry ==
    \E w \in Workers :
        /\ pc[w] = "query"
        /\ loc[w].client # NoClient
        /\ clients[loc[w].client].api_client = "none"
        /\ loc[w].session \in Range(sessions)
        /\ now > objs[loc[w].session].expires_at

\* register has drawn token t and has not stored its session yet
PendingRegistration(t) == \E w \in Workers : pc[w] = "reg_insert" /\ loc[w].session = t

OtherEntriesUntouched ==
    [][\A w \in Workers :
          (pc[w] = "idle" /\ pc'[w] = "done" /\ res'[w].op \in {"get", "unregister"}) =>
              /\ Without(sessions', res'[w].arg) = Without(sessions, res'[w].arg)
              /\ objs' = objs
              /\ Len(clients') = Len(clients)
              /\ \A i \in DOMAIN clients :
                   clients[i].owner # res'[w].arg => clients'[i] = clients[i]]_vars

\* get removed the expired entry of its token and left the expired entry of
\* another token in the registry, its handle open
GetLeftOtherExpiredEntry ==
    \E w \in Workers :
        /\ Finished(w, "get")
        /\ ExpiredThere(res[w])
        /\ \E t \in Range(sessions) :
             /\ res[w].start > objs[t].expires_at
             /\ objs[t].k8s_client # NoClient
             /\ clients[objs[t].k8s_client].closes = 0

\* C37: every summary list() returns has its is_expired flag false, also when
\* the clock advances between the sweep and the construction of the summaries.
ListedSummariesAreUnexpired ==
    \A w \in Workers :
        Finished(w, "list") =>
            \A i \in DOMAIN res[w].summaries : ~res[w].summaries[i].is_expired

\* C38: the admin unregister endpoint answers unregistered = true exactly when
\* its request removed an entry of the given token from the registry (an
\* entry that had expired and was not swept yet included), and after the
\* request the token has no entry.
AdminUnregisterReportsRemoval ==
    pc[UnitWorker] = "unregistered" =>
        /\ res[UnitWorker].unregistered <=>
               (res[UnitWorker].session_token \in Range(res[UnitWorker].pre))
        /\ res[UnitWorker].session_token \notin Range(sessions)

\* the Authorization header of the answered request is "Bearer " followed by
\* a key of the ApiKeyManager
ValidBearer(r) == r.header.prefix = "Bearer " /\ r.header.rest \in DOMAIN loc[UnitWorker].keys

\* C40: when the server has at least one API key, from the keys file,
\* --auth-key or K8S_AI_AUTH_KEYS, every request to a path other than the two
\* agent-card paths that carries no valid Bearer key is answered 401 and does
\* not go on to the application.
AnyConfiguredKeyEnforcesAuth ==
    (/\ pc[UnitWorker] = "serving"
     /\ res[UnitWorker].op = "request"
     /\ DOMAIN loc[UnitWorker].keys # {}
     /\ res[UnitWorker].path \notin AgentCardPaths
     /\ ~ValidBearer(res[UnitWorker])) =>
        /\ res[UnitWorker].status_code = 401
        /\ ~res[UnitWorker].passed

====
